---- MODULE Spec2Model ----
(***************************************************************************)
(* Keyframe selection engine of EduRag's LessonAnalyzer                    *)
(* (src/CourseProcessor/CourseParser/LessonParser.py).                     *)
(*                                                                         *)
(* Units.  Times are integers in milliseconds (15.0 s = 15000).  A text is *)
(* a sequence of one-character strings.  A similarity score is the exact   *)
(* real dot / sqrt(den2), kept as the record [dot, den2] with den2 > 0, so *)
(* that comparisons of scores are exact and need no square root.           *)
(***************************************************************************)
EXTENDS Integers, Sequences, FiniteSets, TLC

VARIABLES
    pc,             \* position of the invocation of _process_video
    segments,       \* argument `segments`
    step_id,        \* argument `step_id`
    lesson_name,    \* argument `lesson_name`
    temp_dir,       \* TRUE iff the directory frames_<step_id> exists
    cap,            \* the cv2.VideoCapture handle: "none", "unopened", "open", "released"
    video_duration, \* local `video_duration` (ms)
    time_blocks,    \* local `time_blocks`
    bi,             \* index in time_blocks of the block the for loop is at
    pi,             \* index in capture_points of the point the inner loop is at
    candidates,     \* local `candidates`
    best,           \* local `best`
    final_frames,   \* local `final_frames_data`
    ret,            \* the value of the executed return statement
    escaped,        \* TRUE iff an exception left _process_video
    failed_at,      \* history: where the invocation failed: "none", "download", "open", "window"
    exc,            \* the collaborator whose exception is being handled, or "none"
    called,         \* history: collaborators called in this invocation
    upload_tried,   \* history: storage keys passed to upload_frame in this invocation
    uploaded,       \* history: storage keys upload_frame stored in this invocation
    fatal_returns,  \* history: values handed back by earlier invocations that failed fatally
    blocks_out,     \* result of a direct call of _group_segments_by_15s
    sought,         \* history: the capture points cap.set was called for in this invocation
    sim_args,       \* arguments and embedding answers of a direct call of _calculate_similarity
    sim_out,        \* result of that call
    procs,          \* two invocations of _process_video that may overlap
    dirs,           \* for each step id: the directory frames_<step_id>
    group_log,      \* history: argument and result of each direct call of _group_segments_by_15s
    current_llm,    \* global `_current_llm` of the local LLM service
    current_config_key, \* global `_current_config_key`
    cache_lock,     \* `_cache_lock`: 0, or the request thread that holds it
    reqs,           \* for each request thread: its position in generate and its locals
    made,           \* history: the model instances Llama(**kwargs) constructed
    dropped,        \* history: the model instances _unload_current_model unloaded
    step_files,     \* the step files of the lesson directory, as they are on disk
    run,            \* which run of parse over the lesson directory this is
    parse_pc,       \* position of parse
    si,             \* index of the step file the loop of parse is at
    parsed_steps,   \* local `parsed_steps` of parse
    all_frames_metadata, \* local `all_frames_metadata` of parse
    returns,        \* history: what each finished run of parse returned
    transcribe_calls, \* history: <<run, step id>> of each Client.transcribe call
    video_due,      \* history: steps that reached line 270 with a video URL and segments
    video_calls,    \* history: steps _process_video was called for
    files_written   \* history: the files written by the save methods, per run

vars == <<pc, segments, step_id, lesson_name, temp_dir, cap, video_duration,
          time_blocks, bi, pi, candidates, best, final_frames, ret, escaped,
          failed_at, exc, called, upload_tried, uploaded, fatal_returns, blocks_out,
          sought, sim_args, sim_out, procs, dirs, group_log, current_llm,
          current_config_key, cache_lock, reqs, made, dropped, step_files, run,
          parse_pc, si, parsed_steps, all_frames_metadata, returns,
          transcribe_calls, video_due, video_calls, files_written>>

\* the state of the local LLM service
llmvars == <<current_llm, current_config_key, cache_lock, reqs, made, dropped>>

\* the state of parse
parsevars == <<step_files, run, parse_pc, si, parsed_steps, all_frames_metadata,
               returns, transcribe_calls, video_due, video_calls, files_written>>

\* the state of the direct calls, of the overlapping invocations, of the LLM
\* service and of parse
aside == <<sim_args, sim_out, procs, dirs, group_log, llmvars, parsevars>>

-----------------------------------------------------------------------------
(* Program constants *)

WindowMs == 15000
CenterMs == 7500
SpreadMs == 3000
ThresholdNum == 35
ThresholdDen == 100

(* Bounds of the model *)

MaxGroupSegs == 3
MaxVideoSegs == 2
MaxSteps == 2
MaxRuns == 2
MaxRequests == 2

-----------------------------------------------------------------------------
(* Texts *)

IsSpace(c) == c = " "

RECURSIVE LStrip(_)
LStrip(s) == IF s # <<>> /\ IsSpace(Head(s)) THEN LStrip(Tail(s)) ELSE s

RECURSIVE RStrip(_)
RStrip(s) ==
    IF s # <<>> /\ IsSpace(s[Len(s)]) THEN RStrip(SubSeq(s, 1, Len(s) - 1)) ELSE s

\* str.strip()
Strip(s) == RStrip(LStrip(s))

\* " ".join(texts)
RECURSIVE Join(_)
Join(texts) ==
    IF texts = <<>> THEN <<>>
    ELSE IF Len(texts) = 1 THEN texts[1]
    ELSE texts[1] \o <<" ">> \o Join(Tail(texts))

-----------------------------------------------------------------------------
(* _group_segments_by_15s *)

\* math.ceil(a / b) for b > 0
Ceil(a, b) == -((-a) \div b)

\* a wrong rounding: one more than the floor
NumBlocksFloorPlusOne(segs) == (segs[Len(segs)].end \div WindowMs) + 1

NumBlocks(segs) == Ceil(segs[Len(segs)].end, WindowMs)

\* membership by overlap instead of by start
InBlockByOverlap(seg, start_t, end_t) == seg.start < end_t /\ seg.end >= start_t

InBlock(seg, start_t, end_t) == start_t <= seg.start /\ seg.start < end_t

\* the inner for loop: the texts of the segments of the interval, in list order
RECURSIVE BlockTexts(_, _, _)
BlockTexts(segs, start_t, end_t) ==
    IF segs = <<>> THEN <<>>
    ELSE (IF InBlock(Head(segs), start_t, end_t) THEN <<Head(segs).text>> ELSE <<>>)
         \o BlockTexts(Tail(segs), start_t, end_t)

\* every block is kept
KeepBlockAlways(full_text) == TRUE

KeepBlock(full_text) == full_text # <<>>

BlockCenter(start_t) == start_t + CenterMs

MakeBlock(i, full_text) ==
    [start |-> i * WindowMs, end |-> (i + 1) * WindowMs,
     center |-> BlockCenter(i * WindowMs), text |-> full_text]

\* the outer for loop, from block i on
RECURSIVE GroupFrom(_, _, _)
GroupFrom(segs, i, num_blocks) ==
    IF i >= num_blocks THEN <<>>
    ELSE LET full_text == Strip(Join(BlockTexts(segs, i * WindowMs, (i + 1) * WindowMs)))
         IN (IF KeepBlock(full_text) THEN <<MakeBlock(i, full_text)>> ELSE <<>>)
            \o GroupFrom(segs, i + 1, num_blocks)

GroupSegments(segs) ==
    IF segs = <<>> THEN <<>> ELSE GroupFrom(segs, 0, NumBlocks(segs))

-----------------------------------------------------------------------------
(* _calculate_similarity *)

\* what Client.get_text_embedding can answer: a vector (empty on failure) or an exception
VecA == <<2, 2, 1, 1, 0>>
VecB == <<3, 3, -3, -2, -3>>
VecC == <<2, 2, 1, 1, 1>>
VecZero == <<0, 0, 0, 0, 0>>
EmbedVectors == {<<>>, VecZero, VecA, VecB, VecC}
EmbedReplies ==
    [kind : {"ok"}, vec : EmbedVectors] \cup {[kind |-> "raise", vec |-> <<>>]}

\* the answers drawn while a video is processed
VideoEmbedReplies ==
    [kind : {"ok"}, vec : {<<>>, VecA, VecB}] \cup {[kind |-> "raise", vec |-> <<>>]}

RECURSIVE Dot(_, _)
Dot(v1, v2) ==
    IF v1 = <<>> \/ v2 = <<>> THEN 0 ELSE Head(v1) * Head(v2) + Dot(Tail(v1), Tail(v2))

\* the square of np.linalg.norm(v)
NormSq(v) == Dot(v, v)

ZeroScore == [dot |-> 0, den2 |-> 1]

\* s > t for the reals s.dot / sqrt(s.den2) and t.dot / sqrt(t.den2)
ScoreGt(s, t) ==
    IF s.dot >= 0 /\ t.dot >= 0 THEN s.dot * s.dot * t.den2 > t.dot * t.dot * s.den2
    ELSE IF s.dot >= 0 THEN TRUE
    ELSE IF t.dot >= 0 THEN FALSE
    ELSE s.dot * s.dot * t.den2 < t.dot * t.dot * s.den2

\* the quotient is formed whatever the norms are; a zero norm is an error
CalculateSimilarityNoNormGuard(text1, text2, r1, r2) ==
    IF text1 = <<>> \/ text2 = <<>>
    THEN [raised |-> FALSE, score |-> ZeroScore, calls |-> 0]
    ELSE IF r1.kind = "raise"
    THEN [raised |-> TRUE, score |-> ZeroScore, calls |-> 1]
    ELSE IF r2.kind = "raise"
    THEN [raised |-> TRUE, score |-> ZeroScore, calls |-> 2]
    ELSE IF r1.vec = <<>> \/ r2.vec = <<>>
    THEN [raised |-> FALSE, score |-> ZeroScore, calls |-> 2]
    ELSE IF NormSq(r1.vec) * NormSq(r2.vec) = 0
    THEN [raised |-> TRUE, score |-> ZeroScore, calls |-> 2]
    ELSE [raised |-> FALSE,
          score |-> [dot |-> Dot(r1.vec, r2.vec), den2 |-> NormSq(r1.vec) * NormSq(r2.vec)],
          calls |-> 2]

\* r1, r2: the answers the embedding service gives if it is asked.
\* calls: how many times it was asked.
CalculateSimilarity(text1, text2, r1, r2) ==
    IF text1 = <<>> \/ text2 = <<>>
    THEN [raised |-> FALSE, score |-> ZeroScore, calls |-> 0]
    ELSE IF r1.kind = "raise"
    THEN [raised |-> TRUE, score |-> ZeroScore, calls |-> 1]
    ELSE IF r2.kind = "raise"
    THEN [raised |-> TRUE, score |-> ZeroScore, calls |-> 2]
    ELSE IF r1.vec = <<>> \/ r2.vec = <<>>
    THEN [raised |-> FALSE, score |-> ZeroScore, calls |-> 2]
    ELSE IF NormSq(r1.vec) * NormSq(r2.vec) = 0
    THEN [raised |-> FALSE, score |-> ZeroScore, calls |-> 2]
    ELSE [raised |-> FALSE,
          score |-> [dot |-> Dot(r1.vec, r2.vec), den2 |-> NormSq(r1.vec) * NormSq(r2.vec)],
          calls |-> 2]

-----------------------------------------------------------------------------
(* _process_video: the pieces *)

\* what cap.read() can answer
ReadReplies == {"ok", "fail", "raise"}

\* what Client.get_image_description can answer: a text (empty on failure) or an exception
CaptionReplies ==
    [kind : {"ok"}, text : {<<>>, <<"d">>}] \cup {[kind |-> "raise", text |-> <<>>]}

\* what ProxyConfig.download_file, cv2.VideoCapture and upload_frame can answer
CallReplies == {"ok", "fail", "raise"}

\* cap.get(CAP_PROP_FPS), cap.get(CAP_PROP_FRAME_COUNT)
FpsValues == {0, 25}
FrameCounts == {250, 500, 1500}

\* frame_count / fps in ms, rounded down: the capture points are whole numbers
\* of ms, so pts > duration is decided as for the exact quotient
VideoDuration(fps, frame_count) ==
    IF fps > 0 THEN (frame_count * 1000) \div fps ELSE 0

CapturePoints(block_center) ==
    <<block_center - SpreadMs, block_center, block_center + SpreadMs>>

\* a capture point after the end of the video is sampled too
PointValidNonNegative(pts, duration) == pts >= 0

\* line 137, negated: the point is sought
PointValid(pts, duration) == ~(pts < 0 \/ pts > duration)

\* cand_{int(pts*100)}.jpg
CandPath(pts) == pts \div 10

\* f"{lesson_name}/step_{step_id}/{int(best['ts'])}.jpg"
S3Key(lesson, step, ts) == [lesson |-> lesson, step |-> step, sec |-> ts \div 1000]

\* a later candidate of equal score replaces the held one
BetterOrEqual(c, held) == ~ScoreGt(held.score, c.score)

\* the test by which max(candidates, key=score) replaces the candidate it holds
Better(c, held) == ScoreGt(c.score, held.score)

RECURSIVE MaxFrom(_, _, _)
MaxFrom(cands, i, held) ==
    IF i > Len(cands) THEN held
    ELSE MaxFrom(cands, i + 1, IF Better(cands[i], held) THEN cands[i] ELSE held)

\* max(candidates, key=lambda x: x["score"]) of a non-empty list
MaxByScore(cands) == MaxFrom(cands, 2, cands[1])

\* the threshold itself passes
AtOrAboveThreshold(score) ==
    ~ScoreGt([dot |-> ThresholdNum, den2 |-> ThresholdDen * ThresholdDen], score)

AboveThreshold(score) ==
    ScoreGt(score, [dot |-> ThresholdNum, den2 |-> ThresholdDen * ThresholdDen])

\* the span is taken from the candidate
MakeKeyframeCandidateSpan(b, block, s3_key) ==
    [timestamp |-> b.ts, segment_span |-> <<b.ts, b.ts>>,
     frame_path |-> s3_key, description |-> b.desc, context_text |-> block.text]

\* lines 166-172
MakeKeyframe(b, block, s3_key) ==
    [timestamp |-> b.ts, segment_span |-> <<block.start, block.end>>,
     frame_path |-> s3_key, description |-> b.desc, context_text |-> block.text]

\* a frame without a caption becomes a candidate too
SamplePointNoDescGuard(block_text, pts, rd, cp, e1, e2) ==
    IF rd = "raise"
    THEN [exc |-> "read", cands |-> <<>>, calls |-> {"seek"}]
    ELSE IF rd = "fail"
    THEN [exc |-> "none", cands |-> <<>>, calls |-> {"seek"}]
    ELSE IF cp.kind = "raise"
    THEN [exc |-> "caption", cands |-> <<>>, calls |-> {"seek", "caption"}]
    ELSE LET sim == CalculateSimilarity(block_text, cp.text, e1, e2)
             calls == {"seek", "caption"} \cup (IF sim.calls > 0 THEN {"embed"} ELSE {})
         IN IF sim.raised
            THEN [exc |-> "embed", cands |-> <<>>, calls |-> calls]
            ELSE [exc |-> "none",
                  cands |-> <<[score |-> sim.score, path |-> CandPath(pts),
                               desc |-> cp.text, ts |-> pts]>>,
                  calls |-> calls]

\* one iteration of the loop over capture_points at a valid point
\* exc: the call that raised, or "none"
SamplePoint(block_text, pts, rd, cp, e1, e2) ==
    IF rd = "raise"
    THEN [exc |-> "read", cands |-> <<>>, calls |-> {"seek"}]
    ELSE IF rd = "fail"
    THEN [exc |-> "none", cands |-> <<>>, calls |-> {"seek"}]
    ELSE IF cp.kind = "raise"
    THEN [exc |-> "caption", cands |-> <<>>, calls |-> {"seek", "caption"}]
    ELSE IF cp.text = <<>>
    THEN [exc |-> "none", cands |-> <<>>, calls |-> {"seek", "caption"}]
    ELSE LET sim == CalculateSimilarity(block_text, cp.text, e1, e2)
             calls == {"seek", "caption"} \cup (IF sim.calls > 0 THEN {"embed"} ELSE {})
         IN IF sim.raised
            THEN [exc |-> "embed", cands |-> <<>>, calls |-> calls]
            ELSE [exc |-> "none",
                  cands |-> <<[score |-> sim.score, path |-> CandPath(pts),
                               desc |-> cp.text, ts |-> pts]>>,
                  calls |-> calls]

\* a failed download is not returned from
DownloadNextFallsThrough(r) == IF r = "raise" THEN "except" ELSE "open"

\* ProxyConfig.download_file answered r: where line 109-110 goes next
DownloadNext(r) ==
    IF r = "ok" THEN "open" ELSE IF r = "fail" THEN "finally" ELSE "except"

\* a handler for the exceptions of the video decoder only
CaughtDecodeOnly(e) == e \in {"open", "read"}

\* `except Exception` handles the exception of every collaborator
Caught(e) == TRUE

NoBest == [score |-> ZeroScore, path |-> 0, desc |-> <<>>, ts |-> 0]

-----------------------------------------------------------------------------
(* Inputs *)

SeqsUpTo(S, n) == UNION {[1..k -> S] : k \in 0..n}

VideoSegs ==
    {[start |-> s, end |-> s + 5000, text |-> <<"a">>] : s \in {0, 20000, 50000}}
VideoInputs == SeqsUpTo(VideoSegs, MaxVideoSegs)

StepIds == {1}
LessonNames == {"L"}

\* <<start, end>>: inside a window, across a window boundary, of no length on a
\* boundary, and in the windows 1 and 3
GroupTimes ==
    {<<0, 5000>>, <<0, 20000>>, <<15000, 15000>>, <<20000, 25000>>, <<50000, 55000>>}
GroupSegs ==
    {[start |-> t[1], end |-> t[2], text |-> x] :
        t \in GroupTimes, x \in {<<" ">>, <<"a">>, <<" ", "b">>}}
GroupInputs == SeqsUpTo(GroupSegs, MaxGroupSegs)

-----------------------------------------------------------------------------
(* _process_video: the invocation *)

Locals0 ==
    /\ cap = "none"
    /\ video_duration = 0
    /\ time_blocks = <<>>
    /\ bi = 1
    /\ pi = 1
    /\ candidates = <<>>
    /\ best = NoBest
    /\ final_frames = <<>>
    /\ ret = <<>>
    /\ escaped = FALSE
    /\ failed_at = "none"
    /\ exc = "none"
    /\ called = {}
    /\ upload_tried = {}
    /\ uploaded = {}
    /\ sought = {}

\* no request is being served
LlmIdle ==
    /\ current_llm = <<>>
    /\ current_config_key = <<>>
    /\ cache_lock = 0
    /\ reqs = <<>>
    /\ made = {}
    /\ dropped = {}

\* parse is not running
ParseIdle ==
    /\ step_files = <<>>
    /\ run = 0
    /\ parse_pc = "idle"
    /\ si = 0
    /\ parsed_steps = <<>>
    /\ all_frames_metadata = <<>>
    /\ returns = <<>>
    /\ transcribe_calls = {}
    /\ video_due = {}
    /\ video_calls = {}
    /\ files_written = {}

\* no direct call, no overlapping invocations, no request, no parse
AsideIdle ==
    /\ sim_args = <<>>
    /\ sim_out = <<>>
    /\ procs = <<>>
    /\ dirs = <<>>
    /\ group_log = <<>>
    /\ LlmIdle
    /\ ParseIdle

Init ==
    /\ pc = "entry"
    /\ segments \in VideoInputs
    /\ step_id \in StepIds
    /\ lesson_name \in LessonNames
    /\ temp_dir = FALSE
    /\ Locals0
    /\ AsideIdle
    /\ fatal_returns = {}
    /\ blocks_out = <<>>

\* lines 102-105
Enter ==
    /\ pc = "entry"
    /\ UNCHANGED <<sought, aside>>
    /\ temp_dir' = TRUE
    /\ final_frames' = <<>>
    /\ pc' = "download"
    /\ UNCHANGED <<segments, step_id, lesson_name, cap, video_duration, time_blocks,
                   bi, pi, candidates, best, ret, escaped, failed_at, exc, called,
                   upload_tried, uploaded, fatal_returns, blocks_out>>

\* lines 109-110
Download ==
    /\ pc = "download"
    /\ UNCHANGED <<sought, aside>>
    /\ called' = called \cup {"download"}
    /\ \E r \in CallReplies :
        /\ pc' = DownloadNext(r)
        /\ failed_at' = IF r = "ok" THEN failed_at ELSE "download"
        /\ exc' = IF r = "raise" THEN "download" ELSE exc
        /\ ret' = IF r = "fail" THEN <<>> ELSE ret
    /\ UNCHANGED <<segments, step_id, lesson_name, temp_dir, cap, video_duration,
                   time_blocks, bi, pi, candidates, best, final_frames, escaped,
                   upload_tried, uploaded, fatal_returns, blocks_out>>

\* lines 112-118
Open ==
    /\ pc = "open"
    /\ UNCHANGED <<sought, aside>>
    /\ called' = called \cup {"open"}
    /\ \E r \in CallReplies :
        \/ /\ r = "ok"
           /\ cap' = "open"
           /\ \E fps \in FpsValues, frame_count \in FrameCounts :
                video_duration' = VideoDuration(fps, frame_count)
           /\ pc' = "group"
           /\ UNCHANGED <<ret, failed_at, exc>>
        \/ /\ r = "fail"
           /\ cap' = "unopened"
           /\ ret' = <<>>
           /\ failed_at' = "open"
           /\ pc' = "finally"
           /\ UNCHANGED <<video_duration, exc>>
        \/ /\ r = "raise"
           /\ failed_at' = "open"
           /\ exc' = "open"
           /\ pc' = "except"
           /\ UNCHANGED <<cap, ret, video_duration>>
    /\ UNCHANGED <<segments, step_id, lesson_name, temp_dir, time_blocks, bi, pi,
                   candidates, best, final_frames, escaped, upload_tried, uploaded,
                   fatal_returns, blocks_out>>

\* lines 121-122
Group ==
    /\ pc = "group"
    /\ UNCHANGED <<sought, aside>>
    /\ called' = called \cup {"group"}
    /\ time_blocks' = GroupSegments(segments)
    /\ bi' = 1
    /\ pc' = "block"
    /\ UNCHANGED <<segments, step_id, lesson_name, temp_dir, cap, video_duration, pi,
                   candidates, best, final_frames, ret, escaped, failed_at, exc,
                   upload_tried, uploaded, fatal_returns, blocks_out>>

\* lines 125-134: the head of one iteration of the loop over time_blocks.
\* `best` is not read again before line 159 assigns it anew: it is cleared
\* together with `candidates`.
Block ==
    /\ pc = "block"
    /\ UNCHANGED <<sought, aside>>
    /\ bi <= Len(time_blocks)
    /\ IF time_blocks[bi].center > video_duration
       THEN /\ bi' = bi + 1
            /\ UNCHANGED <<pc, pi, candidates, best>>
       ELSE /\ candidates' = <<>>
            /\ best' = NoBest
            /\ pi' = 1
            /\ pc' = "capture"
            /\ UNCHANGED bi
    /\ UNCHANGED <<segments, step_id, lesson_name, temp_dir, cap, video_duration,
                   time_blocks, final_frames, ret, escaped, failed_at, exc, called,
                   upload_tried, uploaded, fatal_returns, blocks_out>>

\* lines 136-155: one iteration of the loop over capture_points
Capture ==
    /\ pc = "capture"
    /\ UNCHANGED aside
    /\ LET block == time_blocks[bi]
           pts == CapturePoints(block.center)[pi]
           after == IF pi = 3 THEN "select" ELSE "capture"
       IN IF ~PointValid(pts, video_duration)
          THEN /\ pc' = after
               /\ UNCHANGED <<candidates, called, failed_at, exc, sought>>
          ELSE \E rd \in ReadReplies, cp \in CaptionReplies, e1 \in VideoEmbedReplies,
                  e2 \in VideoEmbedReplies :
                  LET out == SamplePoint(block.text, pts, rd, cp, e1, e2)
                  IN /\ called' = called \cup out.calls
                     /\ sought' = sought \cup {pts}
                     /\ candidates' = candidates \o out.cands
                     /\ exc' = out.exc
                     /\ IF out.exc # "none"
                        THEN pc' = "except" /\ failed_at' = "window"
                        ELSE pc' = after /\ UNCHANGED failed_at
    /\ pi' = pi + 1
    /\ UNCHANGED <<segments, step_id, lesson_name, temp_dir, cap, video_duration,
                   time_blocks, bi, best, final_frames, ret, escaped, upload_tried,
                   uploaded, fatal_returns, blocks_out>>

\* lines 158-159
Select ==
    /\ pc = "select"
    /\ UNCHANGED <<sought, aside>>
    /\ IF candidates # <<>>
       THEN /\ best' = MaxByScore(candidates)
            /\ pc' = "accept"
            /\ UNCHANGED bi
       ELSE /\ bi' = bi + 1
            /\ pc' = "block"
            /\ UNCHANGED best
    /\ UNCHANGED <<segments, step_id, lesson_name, temp_dir, cap, video_duration,
                   time_blocks, pi, candidates, final_frames, ret, escaped, failed_at,
                   exc, called, upload_tried, uploaded, fatal_returns, blocks_out>>

\* the keyframe is kept although upload_frame answered False
StoredOrNot(r) == TRUE

\* line 164: `if self.storage.upload_frame(...)` for an answer that is no exception
Stored(r) == r = "ok"

\* the keyframe is put in front of the list
AddFrameFirst(frames, kf) == <<kf>> \o frames

\* line 166: final_frames_data.append
AddFrame(frames, kf) == Append(frames, kf)

\* lines 162-172
Accept ==
    /\ pc = "accept"
    /\ UNCHANGED <<sought, aside>>
    /\ LET block == time_blocks[bi]
           s3_key == S3Key(lesson_name, step_id, best.ts)
       IN IF AboveThreshold(best.score)
          THEN /\ upload_tried' = upload_tried \cup {s3_key}
               /\ \E r \in CallReplies :
                    \/ /\ r # "raise"
                       /\ uploaded' = IF r = "ok" THEN uploaded \cup {s3_key} ELSE uploaded
                       /\ final_frames' =
                            IF Stored(r)
                            THEN AddFrame(final_frames, MakeKeyframe(best, block, s3_key))
                            ELSE final_frames
                       /\ bi' = bi + 1
                       /\ pc' = "block"
                       /\ UNCHANGED <<failed_at, exc>>
                    \/ /\ r = "raise"
                       /\ failed_at' = "window"
                       /\ exc' = "upload"
                       /\ pc' = "except"
                       /\ UNCHANGED <<uploaded, final_frames, bi>>
          ELSE /\ bi' = bi + 1
               /\ pc' = "block"
               /\ UNCHANGED <<upload_tried, uploaded, final_frames, failed_at, exc>>
    /\ UNCHANGED <<segments, step_id, lesson_name, temp_dir, cap, video_duration,
                   time_blocks, pi, candidates, best, ret, escaped, called,
                   fatal_returns, blocks_out>>

\* lines 174-175
Release ==
    /\ pc = "block"
    /\ UNCHANGED <<sought, aside>>
    /\ bi > Len(time_blocks)
    /\ cap' = "released"
    /\ ret' = final_frames
    /\ pc' = "finally"
    /\ UNCHANGED <<segments, step_id, lesson_name, temp_dir, video_duration,
                   time_blocks, bi, pi, candidates, best, final_frames, escaped,
                   failed_at, exc, called, upload_tried, uploaded, fatal_returns,
                   blocks_out>>

\* lines 177-179
Except ==
    /\ pc = "except"
    /\ UNCHANGED <<sought, aside>>
    /\ IF Caught(exc)
       THEN ret' = <<>> /\ UNCHANGED escaped
       ELSE escaped' = TRUE /\ UNCHANGED ret
    /\ pc' = "finally"
    /\ UNCHANGED <<segments, step_id, lesson_name, temp_dir, cap, video_duration,
                   time_blocks, bi, pi, candidates, best, final_frames, failed_at,
                   exc, called, upload_tried, uploaded, fatal_returns, blocks_out>>

\* the directory is removed at the end of the try block instead
FinallyAfterSuccessOnly ==
    /\ pc = "finally"
    /\ UNCHANGED <<sought, aside>>
    /\ temp_dir' = IF failed_at = "none" THEN FALSE ELSE temp_dir
    /\ pc' = "done"
    /\ UNCHANGED <<segments, step_id, lesson_name, cap, video_duration, time_blocks,
                   bi, pi, candidates, best, final_frames, ret, escaped, failed_at,
                   exc, called, upload_tried, uploaded, fatal_returns, blocks_out>>

\* lines 180-181, then control is back at the caller
Finally ==
    /\ pc = "finally"
    /\ UNCHANGED <<sought, aside>>
    /\ temp_dir' = FALSE
    /\ pc' = "done"
    /\ UNCHANGED <<segments, step_id, lesson_name, cap, video_duration, time_blocks,
                   bi, pi, candidates, best, final_frames, ret, escaped, failed_at,
                   exc, called, upload_tried, uploaded, fatal_returns, blocks_out>>

Fatal == failed_at \in {"download", "open"}

\* the caller invokes _process_video again, for another step (lines 234, 271-276)
NextInvocation ==
    /\ pc = "done"
    /\ UNCHANGED aside
    /\ ~escaped
    /\ fatal_returns' = IF Fatal THEN fatal_returns \cup {ret} ELSE fatal_returns
    /\ pc' = "entry"
    /\ segments' \in VideoInputs
    /\ step_id' \in StepIds
    /\ lesson_name' \in LessonNames
    /\ cap' = "none"
    /\ video_duration' = 0
    /\ time_blocks' = <<>>
    /\ bi' = 1
    /\ pi' = 1
    /\ candidates' = <<>>
    /\ best' = NoBest
    /\ final_frames' = <<>>
    /\ ret' = <<>>
    /\ failed_at' = "none"
    /\ exc' = "none"
    /\ called' = {}
    /\ upload_tried' = {}
    /\ uploaded' = {}
    /\ sought' = {}
    /\ UNCHANGED <<temp_dir, escaped, blocks_out>>

Next ==
    \/ Enter
    \/ Download
    \/ Open
    \/ Group
    \/ Block
    \/ Capture
    \/ Select
    \/ Accept
    \/ Release
    \/ Except
    \/ Finally
    \/ NextInvocation

Spec == Init /\ [][Next]_vars

-----------------------------------------------------------------------------
(* Properties of _process_video *)

\* s > 0.35 for the real s.dot / sqrt(s.den2)
ExceedsThreshold(s) == s.dot > 0 /\ s.dot * s.dot * 10000 > 1225 * s.den2

SameScore(s, t) == ~ScoreGt(s, t) /\ ~ScoreGt(t, s)

KeyOf(ts) == [lesson |-> lesson_name, step |-> step_id, sec |-> ts \div 1000]

\* C1: in every window with a candidate, the chosen candidate has the maximum
\* score of the window's candidates, and among those of maximum score it is the
\* first in capture-point order, the one of the lowest timestamp.
C1_ChosenIsFirstMaximum ==
    pc = "accept" =>
        \E k \in 1..Len(candidates) :
            /\ best = candidates[k]
            /\ \A j \in 1..Len(candidates) : ~ScoreGt(candidates[j].score, best.score)
            /\ \A j \in 1..(k - 1) : ScoreGt(best.score, candidates[j].score)
            /\ \A j \in 1..Len(candidates) :
                SameScore(candidates[j].score, best.score) => best.ts <= candidates[j].ts
            /\ \A j \in 1..(Len(candidates) - 1) : candidates[j].ts < candidates[j + 1].ts

\* three candidates, the first scoring less than the other two, which tie: the
\* second is chosen
C1_Witness ==
    /\ pc = "accept"
    /\ Len(candidates) = 3
    /\ ScoreGt(candidates[2].score, candidates[1].score)
    /\ SameScore(candidates[2].score, candidates[3].score)
    /\ candidates[2].score # candidates[3].score
    /\ best = candidates[2]

\* C2: the chosen candidate of a window is uploaded iff its score is strictly
\* greater than 0.35, and the window has a keyframe iff that upload succeeded: a
\* chosen candidate scoring 0.35 or less gives no keyframe and no upload.
C2_KeyframeOnlyAboveThreshold ==
    (best # NoBest /\ pc # "accept") =>
        /\ ExceedsThreshold(best.score) <=> KeyOf(best.ts) \in upload_tried
        /\ KeyOf(best.ts) \in uploaded => KeyOf(best.ts) \in upload_tried
        /\ (\E k \in 1..Len(final_frames) : final_frames[k].timestamp = best.ts)
            <=> KeyOf(best.ts) \in uploaded

\* after a window whose keyframe was accepted, the chosen candidate of the next
\* window scored exactly 0.35 and was passed over
C2_Witness ==
    /\ pc = "block"
    /\ Len(final_frames) = 1
    /\ best.score = [dot |-> 7, den2 |-> 400]
    /\ final_frames[1].timestamp < best.ts
    /\ KeyOf(best.ts) \notin upload_tried

\* C6: when control is back at the caller, on whichever path, the directory
\* frames_<step_id> does not exist.
C6_TempDirRemoved == pc = "done" => ~temp_dir

\* back at the caller after the captioning of a candidate raised
C6_Witness == pc = "done" /\ exc = "caption" /\ ~temp_dir

\* C7: a failure of a collaborator call made for one candidate or window, by
\* return value or by exception, drops only that candidate or window: all the
\* windows are gone through and the keyframes accepted are all returned.
C7_FailureDropsOnlyItsUnit ==
    (pc = "done" /\ failed_at \notin {"download", "open"}) =>
        /\ bi > Len(time_blocks)
        /\ ret = final_frames

\* C8: no exception of a collaborator call leaves _process_video: after any of
\* them the caller is handed a list.
C8_NoExceptionEscapes ==
    /\ ~escaped
    /\ (pc = "done" /\ exc # "none") => ret = <<>>

\* back at the caller after the upload raised
C8_Witness == pc = "done" /\ exc = "upload" /\ ~escaped

\* C9: after a failed download or a failed open, the empty list is returned at
\* once: no window was aggregated or sampled and no seek, captioning, embedding or
\* upload call was made.
C9_FatalReturnsAtOnce ==
    (pc \in {"finally", "done"} /\ Fatal) =>
        /\ ret = <<>>
        /\ time_blocks = <<>>
        /\ candidates = <<>>
        /\ final_frames = <<>>
        /\ called \cap {"group", "seek", "caption", "embed"} = {}
        /\ upload_tried = {}

\* back at the caller after the video could not be opened
C9_Witness == pc = "done" /\ failed_at = "open" /\ exc = "none" /\ cap = "unopened"

\* C10: what is handed back after a fatal failure differs from what is handed
\* back after a video was processed to its end.
C10_FatalDistinguishable ==
    (pc = "done" /\ failed_at = "none") => ret \notin fatal_returns

-----------------------------------------------------------------------------
(* _group_segments_by_15s called on its own *)

InitGroup ==
    /\ pc = "group_call"
    /\ segments \in GroupInputs
    /\ step_id \in StepIds
    /\ lesson_name \in LessonNames
    /\ temp_dir = FALSE
    /\ Locals0
    /\ AsideIdle
    /\ fatal_returns = {}
    /\ blocks_out = <<>>

\* the segments are taken out of the list while the windows are built
GroupCallConsuming ==
    /\ pc \in {"group_call", "group_done"}
    /\ blocks_out' = GroupSegments(segments)
    /\ group_log' = Append(group_log, [arg |-> segments, result |-> GroupSegments(segments)])
    /\ segments' = <<>>
    /\ pc' = IF pc = "group_call" THEN "group_done" ELSE "group_twice"
    /\ UNCHANGED <<step_id, lesson_name, temp_dir, cap, video_duration,
                   time_blocks, bi, pi, candidates, best, final_frames, ret, escaped,
                   failed_at, exc, called, upload_tried, uploaded, fatal_returns,
                   sought, sim_args, sim_out, procs, dirs, llmvars, parsevars>>

\* lines 63-96: a call of _group_segments_by_15s on the list `segments`, the
\* first one or a second one on the same list
GroupCall ==
    /\ pc \in {"group_call", "group_done"}
    /\ blocks_out' = GroupSegments(segments)
    /\ group_log' = Append(group_log, [arg |-> segments, result |-> GroupSegments(segments)])
    /\ pc' = IF pc = "group_call" THEN "group_done" ELSE "group_twice"
    /\ UNCHANGED <<segments, step_id, lesson_name, temp_dir, cap, video_duration,
                   time_blocks, bi, pi, candidates, best, final_frames, ret, escaped,
                   failed_at, exc, called, upload_tried, uploaded, fatal_returns,
                   sought, sim_args, sim_out, procs, dirs, llmvars, parsevars>>

NextGroup == GroupCall

SpecGroup == InitGroup /\ [][NextGroup]_vars

-----------------------------------------------------------------------------
(* Properties of _group_segments_by_15s, stated without the operators above *)

Range(f) == {f[k] : k \in DOMAIN f}

SegStartsIn(seg, lo, hi) == lo <= seg.start /\ seg.start < hi

\* the texts of the segments starting in [lo, hi), in input order
MemberTexts(segs, lo, hi) ==
    LET members == SelectSeq(segs, LAMBDA seg : SegStartsIn(seg, lo, hi))
    IN [k \in 1..Len(members) |-> members[k].text]

\* the texts joined by single spaces, built from the right
RECURSIVE SpaceJoined(_)
SpaceJoined(texts) ==
    IF Len(texts) = 0 THEN <<>>
    ELSE IF Len(texts) = 1 THEN texts[1]
    ELSE SpaceJoined(SubSeq(texts, 1, Len(texts) - 1)) \o <<" ">> \o texts[Len(texts)]

Spaces(n) == [k \in 1..n |-> " "]

\* t is s without its leading and trailing spaces
IsTrimOf(t, s) ==
    /\ t # <<>> => t[1] # " " /\ t[Len(t)] # " "
    /\ \E a \in 0..Len(s), b \in 0..Len(s) : s = Spaces(a) \o t \o Spaces(b)

\* the least n with n * d >= a
CeilDiv(a, d) == CHOOSE n \in 0..(a + 1) : n * d >= a /\ (n = 0 \/ (n - 1) * d < a)

MaxEnd(segs) == CHOOSE m \in {seg.end : seg \in Range(segs)} :
                    \A seg \in Range(segs) : seg.end <= m

\* C3: the text of every returned window is the trimmed, space-joined
\* concatenation, in input order, of the texts of exactly the segments whose
\* start lies in [window.start, window.end); the segments' end times play no part.
C3_WindowTextIsMembersJoined ==
    pc = "group_done" =>
        \A k \in 1..Len(blocks_out) :
            LET w == blocks_out[k]
            IN IsTrimOf(w.text, SpaceJoined(MemberTexts(segments, w.start, w.end)))

\* a window of two members, the first of them starting on the window's lower
\* boundary, whose joined text had a space to trim, while a segment that
\* starts before the window ends inside it
C3_Witness ==
    /\ pc = "group_done"
    /\ \E k \in 1..Len(blocks_out) :
        LET w == blocks_out[k]
            texts == MemberTexts(segments, w.start, w.end)
        IN /\ Len(texts) = 2
           /\ w.text # SpaceJoined(texts)
           /\ \E seg \in Range(segments) : seg.start = w.start /\ seg.start > 0
           /\ \E seg \in Range(segments) : seg.start < w.start /\ seg.end > w.start

\* C4: window i, 0 <= i < N = ceil(last end / 15 s), is returned iff the trimmed
\* join of the texts of the segments starting in [15i, 15(i+1)) is not empty;
\* every returned window has a non-empty text.
C4_WindowPresentIffText ==
    pc = "group_done" /\ segments # <<>> =>
        /\ \A i \in 0..(CeilDiv(segments[Len(segments)].end, 15000) - 1) :
            (\E k \in 1..Len(blocks_out) : blocks_out[k].start = 15000 * i)
            <=> ~IsTrimOf(<<>>, SpaceJoined(MemberTexts(segments, 15000 * i, 15000 * (i + 1))))
        /\ \A k \in 1..Len(blocks_out) : blocks_out[k].text # <<>>

\* segments starting in windows 0, 1 and 3 of four: window 2 is absent
C4_Witness ==
    /\ pc = "group_done"
    /\ Len(segments) = 3
    /\ CeilDiv(segments[Len(segments)].end, 15000) = 4
    /\ [k \in 1..Len(blocks_out) |-> blocks_out[k].start] = <<0, 15000, 45000>>

\* C5: at most ceil(maxEnd / 15 s) windows are returned (none for the empty list);
\* each has start = 15 s * i with 0 <= i < ceil(last end / 15 s), end = start + 15 s
\* and center = start + 7.5 s; the starts ascend strictly and no two windows overlap.
C5_WindowGrid ==
    pc = "group_done" =>
        /\ segments = <<>> => blocks_out = <<>>
        /\ segments # <<>> =>
            /\ Len(blocks_out) <= CeilDiv(MaxEnd(segments), 15000)
            /\ \A k \in 1..Len(blocks_out) :
                LET w == blocks_out[k]
                IN /\ \E i \in 0..(CeilDiv(segments[Len(segments)].end, 15000) - 1) :
                        w.start = 15000 * i
                   /\ w.end = w.start + 15000
                   /\ w.center = w.start + 7500
        /\ \A k \in 1..(Len(blocks_out) - 1) :
            /\ blocks_out[k].start < blocks_out[k + 1].start
            /\ blocks_out[k].end <= blocks_out[k + 1].start

\* two windows are returned although the last segment ends before an earlier one
C5_Witness ==
    /\ pc = "group_done"
    /\ Len(blocks_out) = 2
    /\ segments[Len(segments)].end < MaxEnd(segments)

StartOrdered(segs) ==
    \A i, j \in 1..Len(segs) : i < j => segs[i].start <= segs[j].start

\* the windows of `blocks` that the start of seg falls in
WindowsOf(seg, blocks) ==
    {j \in 1..Len(blocks) : SegStartsIn(seg, blocks[j].start, blocks[j].end)}

\* C26: for a list ordered by start with 0 <= start <= end, every segment
\* whose trimmed text is non-empty belongs to exactly one returned window.
C26_NoNarrationLost ==
    (pc = "group_done" /\ StartOrdered(segments)) =>
        \A k \in 1..Len(segments) :
            (~IsTrimOf(<<>>, segments[k].text)) =>
                Cardinality(WindowsOf(segments[k], blocks_out)) = 1

-----------------------------------------------------------------------------
(* Further properties of _process_video *)

\* the capture points of the window that starts at start
PointsOf(start) == {start + CenterMs + d : d \in {0 - SpreadMs, 0, SpreadMs}}

\* the storage keys of the capture points of window i
WindowKeys(i) == {KeyOf(pts) : pts \in PointsOf(time_blocks[i].start)}

SpanOf(i) == <<time_blocks[i].start, time_blocks[i].end>>

\* the keyframes accepted so far and those handed to the caller
Keyframes == Range(final_frames) \cup Range(ret)

\* window i went through sampling and selection just before
JustSelected(i) ==
    /\ pc = "block"
    /\ i = bi - 1
    /\ i >= 1
    /\ time_blocks[i].center <= video_duration

\* C11: whenever the decode handle was created, it has been released by the
\* time the invocation returns, on every exit path: failed open, exception
\* during the windows, normal completion.
C11_HandleReleasedOnEveryExit ==
    (pc = "done" /\ cap # "none") => cap = "released"

\* C12: when the upload of a window's chosen candidate reports failure, the
\* window gets no keyframe, no other candidate of that window is uploaded (at
\* most one upload is attempted per window), and the next windows are processed.
C12_UploadFailureDropsWindow ==
    /\ \A i \in 1..Len(time_blocks) :
        /\ Cardinality(upload_tried \cap WindowKeys(i)) <= 1
        /\ (upload_tried \cap WindowKeys(i)) \ uploaded # {} =>
              \A kf \in Keyframes : kf.segment_span # SpanOf(i)
    /\ \A kf \in Keyframes : kf.frame_path \in uploaded
    /\ (pc = "done" /\ failed_at = "none") =>
          /\ bi > Len(time_blocks)
          /\ ret = final_frames

\* the upload for window [0,15) reported failure, the one for the next window
\* with text succeeded, and its keyframe is returned
C12_Witness ==
    /\ pc = "done"
    /\ failed_at = "none"
    /\ Len(time_blocks) = 2
    /\ upload_tried \cap WindowKeys(1) # {}
    /\ uploaded \cap WindowKeys(1) = {}
    /\ Len(ret) = 1
    /\ ret[1].segment_span = SpanOf(2)

\* C13: in a run without failure, each of the three capture points of every
\* window is sought if and only if it lies in [0, video_duration], whatever
\* the other two points of the window are.
C13_PointsSampledIndependently ==
    (pc = "done" /\ failed_at = "none") =>
        \A i \in 1..Len(time_blocks) : \A pts \in PointsOf(time_blocks[i].start) :
            pts \in sought <=> (0 <= pts /\ pts <= video_duration)

\* C14: the timestamp of every keyframe is center-3 s, center or center+3 s of
\* the window whose span the keyframe carries, and lies in [0, video_duration].
C14_TimestampAtCapturePoint ==
    \A kf \in Keyframes :
        /\ \E i \in 1..Len(time_blocks) :
              /\ kf.segment_span = SpanOf(i)
              /\ kf.timestamp \in PointsOf(time_blocks[i].start)
        /\ 0 <= kf.timestamp
        /\ kf.timestamp <= video_duration

\* a returned keyframe was taken at center+3 s
C14_Witness ==
    /\ pc = "done"
    /\ \E k \in 1..Len(ret) :
          ret[k].timestamp = ret[k].segment_span[1] + CenterMs + SpreadMs

\* C15: the windows are gone through in ascending start order, and the
\* keyframes, accepted and returned, have strictly increasing span starts, each
\* the span of a window already gone through: at most one keyframe per window.
C15_KeyframesAscending ==
    /\ \A i, j \in 1..Len(time_blocks) :
          i < j => time_blocks[i].start < time_blocks[j].start
    /\ \A i, j \in 1..Len(final_frames) :
          i < j => final_frames[i].segment_span[1] < final_frames[j].segment_span[1]
    /\ \A i \in 1..Len(final_frames) :
          \E k \in 1..Len(time_blocks) :
              k < bi /\ final_frames[i].segment_span = SpanOf(k)
    /\ ret \in {<<>>, final_frames}

\* two keyframes are returned
C15_Witness ==
    /\ pc = "done"
    /\ Len(ret) = 2
    /\ ret[1].segment_span[1] < ret[2].segment_span[1]

\* C16: a frame whose caption is empty is never chosen: no candidate and no
\* chosen candidate has an empty caption, every keyframe has a non-empty
\* description and context text, and a window that ended without a candidate
\* has caused no upload and has no keyframe.
C16_EmptyCaptionNeverWins ==
    /\ \A k \in 1..Len(candidates) : candidates[k].desc # <<>>
    /\ pc = "accept" => best.desc # <<>>
    /\ \A kf \in Keyframes : kf.description # <<>> /\ kf.context_text # <<>>
    /\ \A i \in 1..Len(time_blocks) :
          (JustSelected(i) /\ best = NoBest) =>
              /\ upload_tried \cap WindowKeys(i) = {}
              /\ \A kf \in Keyframes : kf.segment_span # SpanOf(i)

\* window [0,15) was sampled, every caption came back empty
C16_Witness ==
    /\ JustSelected(1)
    /\ best = NoBest
    /\ "caption" \in called
    /\ "embed" \notin called
    /\ sought = PointsOf(0)
    /\ upload_tried = {}

\* C18: every keyframe carries the span and the text of its window, the key
\* lesson/step/floor(timestamp) under which its frame was uploaded, and the
\* timestamp and caption of the chosen candidate.
C18_KeyframeCarriesWindowAndKey ==
    /\ \A kf \in Keyframes :
          /\ \E i \in 1..Len(time_blocks) :
                /\ kf.segment_span = SpanOf(i)
                /\ kf.context_text = time_blocks[i].text
          /\ kf.frame_path = KeyOf(kf.timestamp)
          /\ kf.frame_path \in uploaded
    /\ \A i \in 1..Len(time_blocks) :
          (JustSelected(i) /\ KeyOf(best.ts) \in uploaded) =>
              /\ final_frames # <<>>
              /\ final_frames[Len(final_frames)] =
                    [timestamp |-> best.ts, segment_span |-> SpanOf(i),
                     frame_path |-> KeyOf(best.ts), description |-> best.desc,
                     context_text |-> time_blocks[i].text]

\* a keyframe of window [15,30) was just accepted; its span is not its timestamp
C18_Witness ==
    /\ JustSelected(2)
    /\ KeyOf(best.ts) \in uploaded
    /\ final_frames[Len(final_frames)].segment_span = <<15000, 30000>>
    /\ final_frames[Len(final_frames)].timestamp = 22500

\* C19: the directory is removed only after the last window, the handle
\* released, or straight after a failed download or a failed open.
C19_CleanupAfterLastWindow ==
    pc = "finally" =>
        \/ failed_at \in {"download", "open"}
        \/ cap = "released" /\ bi > Len(time_blocks)

\* C27: when _process_video returns, the keys stored by upload_frame are
\* exactly the frame_path values of the returned keyframes, one keyframe each.
C27_UploadedAreReturned ==
    pc = "done" =>
        /\ uploaded = {ret[k].frame_path : k \in 1..Len(ret)}
        /\ \A i, j \in 1..Len(ret) : ret[i].frame_path = ret[j].frame_path => i = j

-----------------------------------------------------------------------------
(* _calculate_similarity called on its own *)

SimTexts == {<<>>, <<"a">>}

InitSim ==
    /\ pc = "sim_call"
    /\ segments = <<>>
    /\ step_id \in StepIds
    /\ lesson_name \in LessonNames
    /\ temp_dir = FALSE
    /\ Locals0
    /\ sim_args \in [text1 : SimTexts, text2 : SimTexts, r1 : EmbedReplies, r2 : EmbedReplies]
    /\ sim_out = <<>>
    /\ procs = <<>>
    /\ dirs = <<>>
    /\ group_log = <<>>
    /\ LlmIdle
    /\ ParseIdle
    /\ fatal_returns = {}
    /\ blocks_out = <<>>

SimCall ==
    /\ pc = "sim_call"
    /\ sim_out' = CalculateSimilarity(sim_args.text1, sim_args.text2, sim_args.r1, sim_args.r2)
    /\ pc' = "sim_done"
    /\ UNCHANGED <<segments, step_id, lesson_name, temp_dir, cap, video_duration,
                   time_blocks, bi, pi, candidates, best, final_frames, ret, escaped,
                   failed_at, exc, called, upload_tried, uploaded, fatal_returns,
                   blocks_out, sought, sim_args, procs, dirs, group_log, llmvars,
                   parsevars>>

NextSim == SimCall

SpecSim == InitSim /\ [][NextSim]_vars

\* both texts are non-empty and both embeddings were returned
SimAnswered ==
    /\ sim_args.text1 # <<>>
    /\ sim_args.text2 # <<>>
    /\ sim_args.r1.kind = "ok"
    /\ sim_args.r2.kind = "ok"

SimZero == ~sim_out.raised /\ sim_out.score.dot = 0

\* C17: _calculate_similarity returns 0.0 when a text is empty, and then asks
\* for no embedding; when an embedding returned is empty; and when the product
\* of the norms of the embeddings is 0, without raising an error.
C17_GuardCasesReturnZero ==
    pc = "sim_done" =>
        /\ (sim_args.text1 = <<>> \/ sim_args.text2 = <<>>) =>
              SimZero /\ sim_out.calls = 0
        /\ (SimAnswered /\ (sim_args.r1.vec = <<>> \/ sim_args.r2.vec = <<>>)) =>
              SimZero
        /\ (SimAnswered /\ sim_args.r1.vec # <<>> /\ sim_args.r2.vec # <<>>
              /\ (\A k \in DOMAIN sim_args.r1.vec : sim_args.r1.vec[k] = 0)) =>
              SimZero
        /\ (SimAnswered /\ sim_args.r1.vec # <<>> /\ sim_args.r2.vec # <<>>
              /\ (\A k \in DOMAIN sim_args.r2.vec : sim_args.r2.vec[k] = 0)) =>
              SimZero

\* the second embedding is the zero vector
C17_Witness ==
    /\ pc = "sim_done"
    /\ SimAnswered
    /\ sim_args.r1.vec = VecA
    /\ sim_args.r2.vec = VecZero
    /\ sim_out = [raised |-> FALSE, score |-> ZeroScore, calls |-> 2]

-----------------------------------------------------------------------------
(* Two invocations of _process_video that overlap *)

Procs == {1, 2}

TwoStepIds == {1, 2}

\* line 102: os.path.join(self.temp_base_dir, f"frames_{step_id}"); temp_base_dir
\* is AppConfig.TEMP_DIR for every analyzer (line 27)
TempDirName(step) == <<"frames", step>>

DirNames == {TempDirName(step) : step \in TwoStepIds}

NoDir == [exists |-> FALSE, video |-> 0]

\* lines 98-105: both invocations are about to start
InitTwo ==
    /\ pc = "two"
    /\ segments = <<>>
    /\ step_id \in StepIds
    /\ lesson_name \in LessonNames
    /\ temp_dir = FALSE
    /\ Locals0
    /\ sim_args = <<>>
    /\ sim_out = <<>>
    /\ procs \in [Procs -> [pc : {"entry"}, step_id : TwoStepIds, decodes : {0}]]
    /\ dirs = [d \in DirNames |-> NoDir]
    /\ group_log = <<>>
    /\ LlmIdle
    /\ ParseIdle
    /\ fatal_returns = {}
    /\ blocks_out = <<>>

main == <<pc, segments, step_id, lesson_name, temp_dir, cap, video_duration,
          time_blocks, bi, pi, candidates, best, final_frames, ret, escaped,
          failed_at, exc, called, upload_tried, uploaded, fatal_returns,
          blocks_out, sought, sim_args, sim_out, group_log, llmvars, parsevars>>

DirOf(p) == TempDirName(procs[p].step_id)

\* lines 102-103: os.makedirs(temp_dir, exist_ok=True)
PEnter(p) ==
    /\ procs[p].pc = "entry"
    /\ dirs' = [dirs EXCEPT ![DirOf(p)].exists = TRUE]
    /\ procs' = [procs EXCEPT ![p].pc = "download"]
    /\ UNCHANGED main

\* lines 109-110: the video is written to temp_dir/video.mp4, which takes the
\* directory to be there, or the download fails
PDownload(p) ==
    /\ procs[p].pc = "download"
    /\ \E r \in {"ok", "fail"} :
          IF r = "ok" /\ dirs[DirOf(p)].exists
          THEN /\ dirs' = [dirs EXCEPT ![DirOf(p)].video = p]
               /\ procs' = [procs EXCEPT ![p].pc = "open"]
          ELSE /\ procs' = [procs EXCEPT ![p].pc = "finally"]
               /\ UNCHANGED dirs
    /\ UNCHANGED main

\* lines 112-114: cv2.VideoCapture opens temp_dir/video.mp4 as it is now
POpen(p) ==
    /\ procs[p].pc = "open"
    /\ IF dirs[DirOf(p)].video # 0
       THEN procs' = [procs EXCEPT ![p].pc = "work", ![p].decodes = dirs[DirOf(p)].video]
       ELSE procs' = [procs EXCEPT ![p].pc = "finally"]
    /\ UNCHANGED <<main, dirs>>

\* lines 116-175: the loop over the windows and the return
PWork(p) ==
    /\ procs[p].pc = "work"
    /\ procs' = [procs EXCEPT ![p].pc = "finally"]
    /\ UNCHANGED <<main, dirs>>

\* lines 180-181: shutil.rmtree(temp_dir) if it exists
PFinally(p) ==
    /\ procs[p].pc = "finally"
    /\ dirs' = [dirs EXCEPT ![DirOf(p)] = NoDir]
    /\ procs' = [procs EXCEPT ![p].pc = "done"]
    /\ UNCHANGED main

NextTwo ==
    \E p \in Procs :
        \/ PEnter(p)
        \/ PDownload(p)
        \/ POpen(p)
        \/ PWork(p)
        \/ PFinally(p)

SpecTwo == InitTwo /\ [][NextTwo]_vars

\* between makedirs and rmtree
Using(p) == procs[p].pc \in {"download", "open", "work", "finally"}

\* C20: the directory and the video file of an invocation are its own: while
\* it uses them, no other invocation uses the same directory, the directory it
\* made is there, and the video it decodes is the one it downloaded.
C20_DirectoryOwnedExclusively ==
    pc = "two" =>
        \A p \in Procs :
            Using(p) =>
                /\ \A q \in Procs \ {p} : Using(q) => DirOf(q) # DirOf(p)
                /\ dirs[DirOf(p)].exists
                /\ procs[p].decodes \in {0, p}

-----------------------------------------------------------------------------
(* parse: the steps of a lesson, run after run over the same directory *)

\* what a step file holds: a video step, a text step, a step parse_step_dict
\* answers None for (a quiz, or no block), a file json.load fails on
StepKinds == {"video", "text", "ignored", "unreadable"}

\* the step files of a lesson no run has transcribed yet
FreshFiles ==
    UNION {[1..n -> StepKinds] : n \in 1..MaxSteps}

StepFile(i, kind) == [id |-> i, kind |-> kind, transcript |-> <<>>, segs |-> <<>>]

OneSegment == <<[start |-> 0, end |-> 5000, text |-> <<"a">>]>>

\* what Client.transcribe can answer: nothing, or a text with or without segments
TranscribeReplies ==
    {[text |-> <<>>, segments |-> <<>>],
     [text |-> <<"t">>, segments |-> <<>>],
     [text |-> <<"t">>, segments |-> OneSegment]}

\* what _process_video can hand back
FrameLists == {<<>>, <<[timestamp |-> 4500]>>}

\* StepParser.py lines 104-131: the result of parse_step_dict for a text step
\* or a video step with a URL; the transcript is always ""
ParseStepDict(f) ==
    [step_id |-> f.id,
     video_url |-> IF f.kind = "video" THEN <<"u">> ELSE <<>>,
     transcript |-> <<>>]

\* line 270: the first operand of the condition
VideoEnabled == FALSE

\* lines 277-281
TagFrames(frames, sid, name) ==
    [k \in 1..Len(frames) |->
        [timestamp |-> frames[k].timestamp, step_id |-> sid, lesson_name |-> name]]

InitParse ==
    /\ pc = "parse"
    /\ segments = <<>>
    /\ step_id \in StepIds
    /\ lesson_name \in LessonNames
    /\ temp_dir = FALSE
    /\ Locals0
    /\ sim_args = <<>>
    /\ sim_out = <<>>
    /\ procs = <<>>
    /\ dirs = <<>>
    /\ group_log = <<>>
    /\ LlmIdle
    /\ fatal_returns = {}
    /\ blocks_out = <<>>
    /\ \E kinds \in FreshFiles :
          step_files = [i \in DOMAIN kinds |-> StepFile(i, kinds[i])]
    /\ run = 1
    /\ parse_pc = "loop"
    /\ si = 1
    /\ parsed_steps = <<>>
    /\ all_frames_metadata = <<>>
    /\ returns = <<>>
    /\ transcribe_calls = {}
    /\ video_due = {}
    /\ video_calls = {}
    /\ files_written = {}

\* everything but the state of parse
notparse == <<pc, segments, step_id, lesson_name, temp_dir, cap, video_duration,
              time_blocks, bi, pi, candidates, best, final_frames, ret, escaped,
              failed_at, exc, called, upload_tried, uploaded, fatal_returns,
              blocks_out, sought, sim_args, sim_out, procs, dirs, group_log, llmvars>>

\* lines 269-283 for the step `parsed` with the segments at hand
VideoAndAppend(parsed, segs) ==
    /\ video_due' = IF parsed.video_url # <<>> /\ segs # <<>>
                    THEN video_due \cup {<<run, parsed.step_id>>}
                    ELSE video_due
    /\ IF VideoEnabled /\ parsed.video_url # <<>> /\ segs # <<>>
       THEN /\ video_calls' = video_calls \cup {<<run, parsed.step_id>>}
            /\ \E frames \in FrameLists :
                  all_frames_metadata' =
                      all_frames_metadata \o TagFrames(frames, parsed.step_id, lesson_name)
       ELSE UNCHANGED <<video_calls, all_frames_metadata>>
    /\ parsed_steps' = Append(parsed_steps, parsed)

\* lines 234-283: one iteration of the loop over the step files
ParseStep ==
    /\ parse_pc = "loop"
    /\ si <= Len(step_files)
    /\ si' = si + 1
    /\ LET f == step_files[si]
           parsed == ParseStepDict(f)
       IN IF f.kind \in {"unreadable", "ignored"}
          THEN UNCHANGED <<step_files, parsed_steps, all_frames_metadata,
                           transcribe_calls, video_due, video_calls>>
          ELSE IF parsed.video_url # <<>> /\ f.transcript = <<>>
          THEN /\ transcribe_calls' = transcribe_calls \cup {<<run, f.id>>}
               /\ \E tr \in TranscribeReplies :
                    IF tr.text # <<>>
                    THEN /\ \E written \in BOOLEAN :
                              step_files' =
                                  IF written
                                  THEN [step_files EXCEPT ![si].transcript = tr.text,
                                                          ![si].segs = tr.segments]
                                  ELSE step_files
                         /\ VideoAndAppend([parsed EXCEPT !.transcript = tr.text],
                                           tr.segments)
                    ELSE /\ UNCHANGED step_files
                         /\ VideoAndAppend(parsed, tr.segments)
          ELSE /\ UNCHANGED <<step_files, transcribe_calls>>
               /\ VideoAndAppend(parsed, f.segs)
    /\ UNCHANGED <<run, parse_pc, returns, files_written, notparse>>

\* lines 285-289: both save methods, then the return
ParseSave ==
    /\ parse_pc = "loop"
    /\ si > Len(step_files)
    /\ \E content_ok \in BOOLEAN, meta_ok \in BOOLEAN :
          files_written' = files_written
              \cup (IF content_ok THEN {<<run, "content.txt", parsed_steps>>} ELSE {})
              \cup (IF all_frames_metadata # <<>> /\ meta_ok
                    THEN {<<run, "frames_metadata.json", all_frames_metadata>>}
                    ELSE {})
    /\ returns' = Append(returns, parsed_steps)
    /\ parse_pc' = "done"
    /\ UNCHANGED <<step_files, run, si, parsed_steps, all_frames_metadata,
                   transcribe_calls, video_due, video_calls, notparse>>

\* parse is run again over the same lesson directory
ParseAgain ==
    /\ parse_pc = "done"
    /\ run < MaxRuns
    /\ run' = run + 1
    /\ parse_pc' = "loop"
    /\ si' = 1
    /\ parsed_steps' = <<>>
    /\ all_frames_metadata' = <<>>
    /\ UNCHANGED <<step_files, returns, transcribe_calls, video_due, video_calls,
                   files_written, notparse>>

NextParse ==
    \/ ParseStep
    \/ ParseSave
    \/ ParseAgain

SpecParse == InitParse /\ [][NextParse]_vars

\* C21: when parse has gone through the steps, keyframe selection was run for
\* every step that had a video URL and a non-empty list of segments.
C21_VideoStepsGetKeyframes ==
    parse_pc = "done" => video_due \subseteq video_calls

\* C25: when a run of parse ends, every video step whose file holds a
\* transcript, cached by an earlier run or by this one, carries that transcript
\* in the returned list.
C25_TranscriptCarried ==
    parse_pc = "done" =>
        \A k \in 1..Len(parsed_steps) : \A i \in 1..Len(step_files) :
            (/\ step_files[i].id = parsed_steps[k].step_id
             /\ step_files[i].kind = "video"
             /\ step_files[i].transcript # <<>>)
                => parsed_steps[k].transcript = step_files[i].transcript

-----------------------------------------------------------------------------
(* The local LLM service: /generate requests served by concurrent threads *)

Threads == {1, 2}

\* the arguments generate passes to get_llm_instance (main.py line 124)
Configs == [model_path : {"m1", "m2"}, n_ctx : {2048}, n_gpu_layers : {-1},
            n_batch : {512}]

\* None
NoLlm == <<>>
NoKey == <<>>

\* line 66: the key names the four arguments
NewKey(c) == <<c.model_path, c.n_ctx, c.n_gpu_layers, c.n_batch>>

\* what Llama(**kwargs) can do (lines 87-90)
LoadReplies == {"ok", "raise"}

NoRequest == [pc |-> "idle", cfg |-> <<>>, llm |-> NoLlm, outcome |-> "none",
              loads |-> 0, served |-> 0]

InitLlm ==
    /\ pc = "llm"
    /\ segments = <<>>
    /\ step_id \in StepIds
    /\ lesson_name \in LessonNames
    /\ temp_dir = FALSE
    /\ Locals0
    /\ sim_args = <<>>
    /\ sim_out = <<>>
    /\ procs = <<>>
    /\ dirs = <<>>
    /\ group_log = <<>>
    /\ ParseIdle
    /\ fatal_returns = {}
    /\ blocks_out = <<>>
    /\ current_llm = NoLlm
    /\ current_config_key = NoKey
    /\ cache_lock = 0
    /\ reqs = [t \in Threads |-> NoRequest]
    /\ made = {}
    /\ dropped = {}

\* everything but the state of the LLM service
notllm == <<pc, segments, step_id, lesson_name, temp_dir, cap, video_duration,
            time_blocks, bi, pi, candidates, best, final_frames, ret, escaped,
            failed_at, exc, called, upload_tried, uploaded, fatal_returns,
            blocks_out, sought, sim_args, sim_out, procs, dirs, group_log, parsevars>>

\* lines 40-57: _unload_current_model
UnloadCurrentModel ==
    IF current_llm # NoLlm
    THEN /\ dropped' = dropped \cup {current_llm}
         /\ current_llm' = NoLlm
         /\ current_config_key' = NoKey
    ELSE UNCHANGED <<current_llm, current_config_key, dropped>>

\* whatever is loaded is taken
HitAnyLoaded(new_key) == current_llm # NoLlm

\* line 69
Hit(new_key) == current_llm # NoLlm /\ new_key = current_config_key

\* lines 108-124: a request arrives and generate gets to get_llm_instance
Request(t) ==
    /\ reqs[t].pc = "idle"
    /\ reqs[t].served < MaxRequests
    /\ \E c \in Configs :
          reqs' = [reqs EXCEPT ![t] = [pc |-> "acquire", cfg |-> c, llm |-> NoLlm,
                                       outcome |-> "none", loads |-> 0,
                                       served |-> reqs[t].served]]
    /\ UNCHANGED <<current_llm, current_config_key, cache_lock, made, dropped, notllm>>

\* line 68: with _cache_lock
Acquire(t) ==
    /\ reqs[t].pc = "acquire"
    /\ cache_lock = 0
    /\ cache_lock' = t
    /\ reqs' = [reqs EXCEPT ![t].pc = "check"]
    /\ UNCHANGED <<current_llm, current_config_key, made, dropped, notllm>>

\* lines 69-75: the loaded instance is returned, or it is unloaded first
Check(t) ==
    /\ reqs[t].pc = "check"
    /\ IF Hit(NewKey(reqs[t].cfg))
       THEN /\ reqs' = [reqs EXCEPT ![t].pc = "infer", ![t].llm = current_llm,
                                    ![t].outcome = "hit"]
            /\ cache_lock' = 0
            /\ UNCHANGED <<current_llm, current_config_key, dropped>>
       ELSE /\ UnloadCurrentModel
            /\ reqs' = [reqs EXCEPT ![t].pc = "load"]
            /\ UNCHANGED cache_lock
    /\ UNCHANGED <<made, notllm>>

\* lines 77-90: Llama(**kwargs)
Load(t) ==
    /\ reqs[t].pc = "load"
    /\ \E r \in LoadReplies :
          IF r = "ok"
          THEN LET llm == [id |-> Cardinality(made) + 1, kwargs |-> reqs[t].cfg]
               IN /\ current_llm' = llm
                  /\ made' = made \cup {llm}
                  /\ reqs' = [reqs EXCEPT ![t].pc = "set_key",
                                          ![t].loads = reqs[t].loads + 1]
          ELSE /\ reqs' = [reqs EXCEPT ![t].pc = "except"]
               /\ UNCHANGED <<current_llm, made>>
    /\ UNCHANGED <<current_config_key, cache_lock, dropped, notllm>>

\* lines 91-93: the key is set and the instance returned
SetKey(t) ==
    /\ reqs[t].pc = "set_key"
    /\ current_config_key' = NewKey(reqs[t].cfg)
    /\ reqs' = [reqs EXCEPT ![t].pc = "infer", ![t].llm = current_llm,
                            ![t].outcome = "loaded"]
    /\ cache_lock' = 0
    /\ UNCHANGED <<current_llm, made, dropped, notllm>>

\* lines 94-96: the handler of a failed load
LoadFailed(t) ==
    /\ reqs[t].pc = "except"
    /\ UnloadCurrentModel
    /\ reqs' = [reqs EXCEPT ![t].pc = "raise"]
    /\ UNCHANGED <<cache_lock, made, notllm>>

\* line 97, lines 125-126: the exception leaves the lock and the request ends
Raise(t) ==
    /\ reqs[t].pc = "raise"
    /\ cache_lock' = 0
    /\ reqs' = [reqs EXCEPT ![t].pc = "idle", ![t].outcome = "raised",
                            ![t].served = reqs[t].served + 1]
    /\ UNCHANGED <<current_llm, current_config_key, made, dropped, notllm>>

\* lines 129-167: inference on the instance obtained, then the response
Infer(t) ==
    /\ reqs[t].pc = "infer"
    /\ reqs' = [reqs EXCEPT ![t].pc = "idle", ![t].served = reqs[t].served + 1]
    /\ UNCHANGED <<current_llm, current_config_key, cache_lock, made, dropped, notllm>>

NextLlm ==
    \E t \in Threads :
        \/ Request(t)
        \/ Acquire(t)
        \/ Check(t)
        \/ Load(t)
        \/ SetKey(t)
        \/ LoadFailed(t)
        \/ Raise(t)
        \/ Infer(t)

SpecLlm == InitLlm /\ [][NextLlm]_vars

\* the configuration a key names
Names(key, c) ==
    /\ key # NoKey
    /\ key[1] = c.model_path
    /\ key[2] = c.n_ctx
    /\ key[3] = c.n_gpu_layers
    /\ key[4] = c.n_batch

\* C23: whenever the lock is free, at most one instance is loaded, it is the
\* one _current_llm holds, _current_llm is None exactly when the key is None,
\* and the instance was loaded with the configuration the key names.  A call
\* that finds its key loaded returns the loaded instance and loads nothing;
\* otherwise the old instance is unloaded before the load and the instance
\* returned was loaded for the requested configuration; after a failed load
\* nothing is loaded when the exception is raised.
C23_CacheConsistent ==
    /\ cache_lock = 0 =>
          /\ Cardinality(made \ dropped) <= 1
          /\ made \ dropped = (IF current_llm = NoLlm THEN {} ELSE {current_llm})
          /\ (current_llm = NoLlm) <=> (current_config_key = NoKey)
          /\ current_llm # NoLlm => Names(current_config_key, current_llm.kwargs)
    /\ \A t \in Threads :
          /\ reqs[t].pc = "load" => made \ dropped = {}
          /\ reqs[t].outcome = "hit" =>
                /\ reqs[t].loads = 0
                /\ reqs[t].llm \in made
                /\ reqs[t].llm.kwargs = reqs[t].cfg
          /\ reqs[t].outcome = "loaded" =>
                /\ reqs[t].loads = 1
                /\ reqs[t].llm \in made
                /\ reqs[t].llm.kwargs = reqs[t].cfg
          /\ reqs[t].pc = "raise" =>
                /\ made \ dropped = {}
                /\ current_llm = NoLlm
                /\ current_config_key = NoKey
                /\ reqs[t].llm = NoLlm

\* thread 1 found its key loaded; thread 2, with the other configuration, had
\* the old instance unloaded and got a new one
C23_Witness ==
    /\ cache_lock = 0
    /\ reqs[1].outcome = "hit"
    /\ reqs[2].outcome = "loaded"
    /\ reqs[2].pc = "infer"
    /\ reqs[1].llm \in dropped
    /\ current_llm = reqs[2].llm
    /\ reqs[1].cfg # reqs[2].cfg

\* C24: the instance a request runs inference on has not been unloaded.
C24_NoUnloadWhileInUse ==
    \A t \in Threads : reqs[t].pc = "infer" => reqs[t].llm \notin dropped

====
